---------------------------- MODULE Spec2Model ----------------------------
(***************************************************************************)
(* The insidr debug server (src/backend/debug_server.py): the connection   *)
(* registry of DebugServer, the per-connection coroutines handle_device    *)
(* and handle_subscriber, and broadcast_to_subscribers.                    *)
(*                                                                         *)
(* asyncio runs one coroutine at a time and switches only at an await, so  *)
(* every action below is the code a coroutine runs from one await to the   *)
(* next.  The awaits are: the read of `async for message in websocket`,    *)
(* and every `await <connection>.send(...)`.  A send writes the message to *)
(* the connection when it is called (unless the connection is closed) and  *)
(* may then suspend the caller until the transport has drained; which      *)
(* suspended coroutine resumes next is the event loop's choice.            *)
(***************************************************************************)
EXTENDS Integers, Sequences, FiniteSets, TLC

(***************************************************************************)
(* Bounds of the model.                                                    *)
(***************************************************************************)
NDev == 2          \* device connections (websocket objects) 1..NDev
NSub == 2          \* subscriber connections (websocket objects) 1..NSub
MaxFrames == 4     \* frames received on all device connections, long runs
WideFrames == 2    \* the same, runs with NSub subscribers
CmdFrames == 2     \* the same, runs with subscriber commands
MaxCmds == 1       \* commands received on all subscriber connections
MaxStalls == 1     \* subscribers that stop reading
MaxDrops == 1      \* subscriber connections that close
\* The ring capacity, 1000 at debug_server.py:86-87, scaled down.
Capacity == 2

DevConns == 1..NDev
SubConns == 1..NSub

\* The deviceId values a client may put on the wire: JSON strings, the empty
\* string among them.
Ids == {"", "dev1", "dev2"}

\* What the clients do in one run of the server: how many connect, how many
\* frames and commands they send, and the deviceIds they use.  A run is
\* long (many frames, no subscriber), wide (every subscriber, few frames) or
\* has subscriber commands.
Load(devs, subs, frames, cmds, ids) ==
    [devs |-> devs, subs |-> subs, frames |-> frames, cmds |-> cmds, ids |-> ids]

Loads ==
    { Load(NDev, 0, MaxFrames, 0, Ids),
      Load(NDev, NSub, WideFrames, 0, {"", "dev1"}),
      Load(NDev, 1, CmdFrames, MaxCmds, {"", "dev1"}) }
\* Python's None, the initial value of handle_device's local device_id.
NoneId == "<None>"
\* The values a subscriber may give the keys `command` and `payload` of a
\* device.send_command request; NoKey: the request does not have the key.
Commands == {"reload", "eval"}
Payloads == {"p1"}
NoKey == "<missing>"
\* The default of command.get('payload', {}).
EmptyPayload == "{}"
\* No websocket: a value that is no connection.
NoConn == CHOOSE n \in 0..NDev : n \notin DevConns

VARIABLES
    devices,        \* self.devices: dict deviceId -> device websocket
    device_info,    \* self.device_info: dict deviceId -> info dict
    device_events,  \* self.device_events: defaultdict(list)
    subscribers,    \* self.subscribers: set of subscriber websockets
    dpc,            \* handle_device(c): where the coroutine is suspended
    device_id,      \* handle_device(c): the local device_id
    bc,             \* broadcast_to_subscribers called by handle_device(c): its locals
    spc,            \* handle_subscriber(s): where the coroutine is suspended
    sconn,          \* transport of subscriber websocket s: open, stuck (peer not reading), closed
    inbox,          \* messages written to subscriber websocket s, in write order
    dinbox,         \* messages written to device websocket c, in write order
    load,           \* what the clients do in this run (never changes)
    nframes,        \* frames received so far on device connections
    ncmds,          \* commands received so far on subscriber connections
    nbcast,         \* history: number of broadcast_to_subscribers calls so far
    authId,         \* history: the id of the last complete _auth of connection c
    nauth,          \* history: how many _auth frames with a deviceId connection c has sent
    lastAuth,       \* history: the connection whose complete _auth for id was processed last
    sentLog,        \* history: per id, the regular frames received from connections handshaken with it
    lastCmd,        \* history: the last device.send_command request received
    unbound         \* history: a regular frame has arrived on a connection with no identity bound

vars == <<devices, device_info, device_events, subscribers, dpc, device_id, bc,
          spc, sconn, inbox, dinbox, load, nframes, ncmds, nbcast, authId,
          nauth, lastAuth, sentLog, lastCmd, unbound>>

registry == <<devices, device_info, device_events, subscribers>>
history == <<authId, nauth, lastAuth, sentLog, lastCmd, unbound>>
counters == <<load, nframes, ncmds, nbcast>>

----------------------------------------------------------------------------
(***************************************************************************)
(* Python helpers.                                                         *)
(***************************************************************************)
\* `if device_id`: None and the empty string are falsy.
Truthy(id) == id # NoneId /\ id # ""

\* d[k] = v on a dict.
DictSet(d, k, v) == [x \in DOMAIN d \cup {k} |-> IF x = k THEN v ELSE d[x]]

\* del d[k]
DictDel(d, k) == [x \in DOMAIN d \ {k} |-> d[x]]

\* d.get(k, default)
DictGet(d, k, default) == IF k \in DOMAIN d THEN d[k] ELSE default

\* lst[-n:]
LastN(lst, n) ==
    IF Len(lst) <= n THEN lst ELSE SubSeq(lst, Len(lst) - n + 1, Len(lst))

\* The position of a websocket in the hash table of the set self.subscribers:
\* `for subscriber in self.subscribers` walks the table by position.  Which
\* websocket gets which position is arbitrary; the connections are numbered
\* by it.
Slot(s) == s

----------------------------------------------------------------------------
(***************************************************************************)
(* Messages.  All messages are records of one shape; the fields a message  *)
(* type does not have are empty.  bno is history: the number of the        *)
(* broadcast_to_subscribers call that sent the message, 0 for a message    *)
(* sent directly.                                                          *)
(***************************************************************************)
Msg(type, id, seq, ids, events) ==
    [type |-> type, deviceId |-> id, seq |-> seq, ids |-> ids, events |-> events, bno |-> 0]

\* The envelope of a regular frame after `event['deviceId'] = device_id`.
Envelope(id, seq) == Msg("log", id, seq, {}, <<>>)

DeviceConnectedMsg(id) == Msg("device.connected", id, 0, {}, <<>>)
DeviceDisconnectedMsg(id) == Msg("device.disconnected", id, 0, {}, <<>>)
DevicesListMsg == Msg("devices.list", "", 0, DOMAIN device_info, <<>>)
DeviceEventsMsg(id) ==
    Msg("device.events", id, 0, {}, DictGet(device_events, id, <<>>))

\* The message forwarded to a device at debug_server.py:144-148: the command
\* of the request, and its payload or {} when the request has none.
CommandMsg(cmd, payload) ==
    [type |-> "command", command |-> cmd,
     payload |-> IF payload = NoKey THEN EmptyPayload ELSE payload]

\* The info dict built at debug_server.py:63-69 (the two timestamps are
\* not modelled: no claim reads them).
DeviceInfo(id) == [deviceId |-> id, userAgent |-> "ua", url |-> "url"]

\* The locals of a broadcast_to_subscribers call that is suspended in a send:
\* msg the message, used the size of the set when the iteration began, pos
\* the table position the iterator has reached, wrote whether the pending
\* send wrote its message, disc the local `disconnected`.  snap (the set
\* when the call began) and dead (its members whose connection was closed
\* by then) are history.
Bc(msg, used, pos, wrote, disc, snap, dead) ==
    [msg |-> msg, used |-> used, pos |-> pos, wrote |-> wrote, disc |-> disc,
     snap |-> snap, dead |-> dead]

\* A device.send_command request of subscriber s, and none.
Cmd(s, id, cmd, payload) ==
    [conn |-> s, deviceId |-> id, command |-> cmd, payload |-> payload]
NoCmd == Cmd(NoConn, "", NoKey, NoKey)

NoMsg == Msg("", "", 0, {}, <<>>)
NoBc == Bc(NoMsg, 0, 0, FALSE, {}, {}, {})

\* websocket.send(m) as far as it runs when called: the message is written
\* unless the connection is closed.
Write(box, s, m) ==
    IF sconn[s] = "closed" THEN box ELSE [box EXCEPT ![s] = Append(@, m)]

----------------------------------------------------------------------------
Init ==
    /\ devices = <<>>
    /\ device_info = <<>>
    /\ device_events = <<>>
    /\ subscribers = {}
    /\ dpc = [c \in DevConns |-> "idle"]
    /\ device_id = [c \in DevConns |-> NoneId]
    /\ bc = [c \in DevConns |-> NoBc]
    /\ spc = [s \in SubConns |-> "idle"]
    /\ sconn = [s \in SubConns |-> "open"]
    /\ inbox = [s \in SubConns |-> <<>>]
    /\ dinbox = [c \in DevConns |-> <<>>]
    /\ load \in Loads
    /\ nframes = 0
    /\ ncmds = 0
    /\ nbcast = 0
    /\ authId = [c \in DevConns |-> NoneId]
    /\ nauth = [c \in DevConns |-> 0]
    /\ lastAuth = [i \in Ids |-> NoConn]
    /\ sentLog = [i \in Ids |-> <<>>]
    /\ lastCmd = NoCmd
    /\ unbound = FALSE

----------------------------------------------------------------------------
(***************************************************************************)
(* broadcast_to_subscribers, called from handle_device(c).  susp is where  *)
(* the caller is while the call is suspended, ret where it continues when  *)
(* the call returns.                                                       *)
(***************************************************************************)

\* From the call to the first await: lines 164-172.
BroadcastCall(c, msg, susp, ret) ==
    LET m == [msg EXCEPT !.bno = nbcast + 1] IN
    /\ nbcast' = nbcast + 1
    /\ UNCHANGED subscribers
    /\ IF subscribers = {}
         THEN /\ dpc' = [dpc EXCEPT ![c] = ret]
              /\ bc' = [bc EXCEPT ![c] = NoBc]
              /\ inbox' = inbox
         ELSE LET first == CHOOSE s \in subscribers :
                               \A t \in subscribers : Slot(s) <= Slot(t)
              IN /\ dpc' = [dpc EXCEPT ![c] = susp]
                 /\ bc' = [bc EXCEPT ![c] =
                              Bc(m, Cardinality(subscribers), Slot(first),
                                 sconn[first] # "closed", {}, subscribers,
                                 {s \in subscribers : sconn[s] = "closed"})]
                 /\ inbox' = Write(inbox, first, m)

\* The subscriber the suspended send of c's broadcast was called on.
Target(c) == CHOOSE s \in SubConns : Slot(s) = bc[c].pos

\* Where handle_device continues when its broadcast call ends: a call from
\* the message loop returns to the read of the next frame, normally or
\* through `except Exception` (line 97); the call of the finally block ends
\* the handler either way.
AfterBroadcast(pc) == IF pc = "bcast" THEN "recv" ELSE "done"

\* From the resumption of a send to the next await or to the return:
\* lines 170-177.
BroadcastStep(c) ==
    /\ dpc[c] \in {"bcast", "cleanup"}
    /\ sconn[Target(c)] # "stuck"
    /\ \E raised \in IF sconn[Target(c)] = "closed"
                      THEN (IF bc[c].wrote THEN {TRUE, FALSE} ELSE {TRUE})
                      ELSE {FALSE} :
         LET b == bc[c]
             disc == IF raised THEN b.disc \cup {Target(c)} ELSE b.disc
             rest == {s \in subscribers : Slot(s) > b.pos}
         IN IF Cardinality(subscribers) # b.used
            THEN \* RuntimeError: Set changed size during iteration
                 /\ dpc' = [dpc EXCEPT ![c] = AfterBroadcast(dpc[c])]
                 /\ bc' = [bc EXCEPT ![c] = NoBc]
                 /\ UNCHANGED <<subscribers, inbox>>
            ELSE IF rest # {}
            THEN LET nxt == CHOOSE s \in rest : \A t \in rest : Slot(s) <= Slot(t)
                 IN /\ bc' = [bc EXCEPT ![c] =
                                 Bc(b.msg, b.used, Slot(nxt), sconn[nxt] # "closed",
                                    disc, b.snap, b.dead)]
                    /\ inbox' = Write(inbox, nxt, b.msg)
                    /\ UNCHANGED <<subscribers, dpc>>
            ELSE \* the loop is over: self.subscribers -= disconnected
                 /\ subscribers' = subscribers \ disc
                 /\ dpc' = [dpc EXCEPT ![c] = AfterBroadcast(dpc[c])]
                 /\ bc' = [bc EXCEPT ![c] = NoBc]
                 /\ UNCHANGED inbox
    /\ UNCHANGED <<devices, device_info, device_events, device_id, spc, sconn,
                   dinbox, counters, history>>

----------------------------------------------------------------------------
(***************************************************************************)
(* handle_device(c).                                                       *)
(***************************************************************************)

\* A device connects: the handler starts and waits for the first frame.
DeviceConnect(c) ==
    /\ dpc[c] = "idle"
    /\ c <= load.devs
    /\ \A b \in DevConns : b < c => dpc[b] # "idle"
    /\ dpc' = [dpc EXCEPT ![c] = "recv"]
    /\ UNCHANGED <<registry, device_id, bc, spc, sconn, inbox, dinbox, counters,
                   history>>

\* The handler can take a frame.
CanRecv(c) == dpc[c] = "recv" /\ nframes < load.frames

\* A frame that is no JSON (line 95), or JSON that is no object (line 97).
RecvMalformed(c) ==
    /\ CanRecv(c)
    /\ nframes' = nframes + 1
    /\ UNCHANGED <<registry, dpc, device_id, bc, spc, sconn, inbox, dinbox,
                   load, ncmds, nbcast, history>>

\* RecvAuthNoId with a bug: the _auth branch is taken only when the frame
\* has a deviceId, and a frame without one goes on to the store step as a
\* regular frame would.
RecvAuthNoIdStored(c) ==
    LET frame == Msg("_auth", NoneId, nframes + 1, {}, <<>>)
        event == [frame EXCEPT !.deviceId = device_id[c]]
        appended == Append(DictGet(device_events, device_id[c], <<>>), event)
    IN
    /\ CanRecv(c)
    /\ nframes' = nframes + 1
    /\ IF Truthy(device_id[c])
         THEN /\ device_events' =
                    DictSet(device_events, device_id[c],
                            IF Len(appended) > Capacity
                            THEN LastN(appended, Capacity) ELSE appended)
              /\ IF device_id[c] \in DOMAIN device_info
                   THEN BroadcastCall(c, event, "bcast", "recv")
                   ELSE UNCHANGED <<subscribers, dpc, bc, inbox, nbcast>>
         ELSE UNCHANGED <<device_events, subscribers, dpc, bc, inbox, nbcast>>
    /\ UNCHANGED <<devices, device_info, device_id, spc, sconn, dinbox, load,
                   ncmds, history>>

\* An _auth frame without payload.deviceId: KeyError at line 61.
RecvAuthNoId(c) ==
    /\ CanRecv(c)
    /\ nframes' = nframes + 1
    /\ UNCHANGED <<registry, dpc, device_id, bc, spc, sconn, inbox, dinbox,
                   load, ncmds, nbcast, history>>

\* An _auth frame with payload.deviceId = id, without userAgent or url:
\* lines 61-62 run, then the KeyError of line 65 or 66.
RecvAuthPartial(c, id) ==
    /\ CanRecv(c)
    /\ nframes' = nframes + 1
    /\ device_id' = [device_id EXCEPT ![c] = id]
    /\ devices' = DictSet(devices, id, c)
    /\ nauth' = [nauth EXCEPT ![c] = @ + 1]
    /\ UNCHANGED <<device_info, device_events, subscribers, dpc, bc, spc, sconn,
                   inbox, dinbox, load, ncmds, nbcast, authId, lastAuth, sentLog,
                   lastCmd, unbound>>

\* A complete _auth frame: lines 60-78.
RecvAuth(c, id) ==
    /\ CanRecv(c)
    /\ nframes' = nframes + 1
    /\ device_id' = [device_id EXCEPT ![c] = id]
    /\ devices' = DictSet(devices, id, c)
    /\ device_info' = DictSet(device_info, id, DeviceInfo(id))
    /\ BroadcastCall(c, DeviceConnectedMsg(id), "bcast", "recv")
    /\ authId' = [authId EXCEPT ![c] = id]
    /\ nauth' = [nauth EXCEPT ![c] = @ + 1]
    /\ lastAuth' = [lastAuth EXCEPT ![id] = c]
    /\ UNCHANGED <<device_events, spc, sconn, dinbox, load, ncmds, sentLog,
                   lastCmd, unbound>>

\* RecvEvent with a bug: a connection with no identity bound takes the
\* identity of a regular frame from the deviceId the frame carries.
RecvEventWireId(c, wireId) ==
    LET did == IF device_id[c] = NoneId THEN wireId ELSE device_id[c]
        frame == Envelope(wireId, nframes + 1)
        event == [frame EXCEPT !.deviceId = did]
        appended == Append(DictGet(device_events, did, <<>>), event)
    IN
    /\ CanRecv(c)
    /\ nframes' = nframes + 1
    /\ sentLog' = IF authId[c] = NoneId THEN sentLog
                  ELSE [sentLog EXCEPT ![authId[c]] =
                           Append(@, [frame EXCEPT !.deviceId = authId[c]])]
    /\ IF Truthy(did)
         THEN /\ device_events' =
                    DictSet(device_events, did,
                            IF Len(appended) > Capacity
                            THEN LastN(appended, Capacity) ELSE appended)
              /\ IF did \in DOMAIN device_info
                   THEN BroadcastCall(c, event, "bcast", "recv")
                   ELSE UNCHANGED <<subscribers, dpc, bc, inbox, nbcast>>
         ELSE UNCHANGED <<device_events, subscribers, dpc, bc, inbox, nbcast>>
    /\ unbound' = (unbound \/ device_id[c] = NoneId)
    /\ UNCHANGED <<devices, device_info, device_id, spc, sconn, dinbox, load,
                   ncmds, authId, nauth, lastAuth, lastCmd>>

\* A regular frame, with wireId as its own deviceId (NoneId: none):
\* lines 80-93.
RecvEvent(c, wireId) ==
    LET frame == Envelope(wireId, nframes + 1)
        event == [frame EXCEPT !.deviceId = device_id[c]]
        appended == Append(DictGet(device_events, device_id[c], <<>>), event)
    IN
    /\ CanRecv(c)
    /\ nframes' = nframes + 1
    /\ sentLog' = IF authId[c] = NoneId THEN sentLog
                  ELSE [sentLog EXCEPT ![authId[c]] =
                           Append(@, [frame EXCEPT !.deviceId = authId[c]])]
    /\ IF Truthy(device_id[c])
         THEN /\ device_events' =
                    DictSet(device_events, device_id[c],
                            IF Len(appended) > Capacity
                            THEN LastN(appended, Capacity) ELSE appended)
              /\ IF device_id[c] \in DOMAIN device_info
                   THEN BroadcastCall(c, event, "bcast", "recv")
                   ELSE \* KeyError at line 90, caught at line 97
                        UNCHANGED <<subscribers, dpc, bc, inbox, nbcast>>
         ELSE UNCHANGED <<device_events, subscribers, dpc, bc, inbox, nbcast>>
    /\ unbound' = (unbound \/ device_id[c] = NoneId)
    /\ UNCHANGED <<devices, device_info, device_id, spc, sconn, dinbox, load,
                   ncmds, authId, nauth, lastAuth, lastCmd>>

\* DeviceClose with a change: the cleanup deletes the info dict of the
\* device together with its connection mapping.
DeviceCloseDropsInfo(c) ==
    /\ dpc[c] = "recv"
    /\ IF Truthy(device_id[c]) /\ device_id[c] \in DOMAIN devices
         THEN /\ devices' = DictDel(devices, device_id[c])
              /\ device_info' = DictDel(device_info, device_id[c])
              /\ BroadcastCall(c, DeviceDisconnectedMsg(device_id[c]), "cleanup", "done")
         ELSE /\ dpc' = [dpc EXCEPT ![c] = "done"]
              /\ UNCHANGED <<devices, device_info, subscribers, bc, inbox, nbcast>>
    /\ UNCHANGED <<device_events, device_id, spc, sconn, dinbox,
                   load, nframes, ncmds, history>>

\* The connection ends while the handler waits for a frame (a normal close
\* ends the loop, an error is caught at line 100): the finally block,
\* lines 102-108.
DeviceClose(c) ==
    /\ dpc[c] = "recv"
    /\ IF Truthy(device_id[c]) /\ device_id[c] \in DOMAIN devices
         THEN /\ devices' = DictDel(devices, device_id[c])
              /\ BroadcastCall(c, DeviceDisconnectedMsg(device_id[c]), "cleanup", "done")
         ELSE /\ dpc' = [dpc EXCEPT ![c] = "done"]
              /\ UNCHANGED <<devices, subscribers, bc, inbox, nbcast>>
    /\ UNCHANGED <<device_info, device_events, device_id, spc, sconn, dinbox,
                   load, nframes, ncmds, history>>

----------------------------------------------------------------------------
(***************************************************************************)
(* handle_subscriber(s).                                                   *)
(***************************************************************************)

\* SubConnect with a bug: the handler yields to the event loop between the
\* add and the send, so the list is not written when the subscriber joins.
SubConnectLate(s) ==
    /\ spc[s] = "idle"
    /\ Cardinality({t \in SubConns : spc[t] # "idle"}) < load.subs
    /\ subscribers' = subscribers \cup {s}
    /\ spc' = [spc EXCEPT ![s] = "listing"]
    /\ UNCHANGED <<devices, device_info, device_events, dpc, device_id, bc, sconn,
                   inbox, dinbox, counters, history>>

\* A subscriber connects: lines 114-122, up to the await of the send.
SubConnect(s) ==
    /\ spc[s] = "idle"
    /\ Cardinality({t \in SubConns : spc[t] # "idle"}) < load.subs
    /\ subscribers' = subscribers \cup {s}
    /\ inbox' = Write(inbox, s, DevicesListMsg)
    /\ spc' = [spc EXCEPT ![s] = "listing"]
    /\ UNCHANGED <<devices, device_info, device_events, dpc, device_id, bc, sconn,
                   dinbox, counters, history>>

\* self.subscribers.discard(websocket), line 158.
Discard(s) == subscribers \ {s}

\* A send of the handler returns or raises.  ConnectionClosed out of the
\* first send leaves through line 155 and the finally block; out of a reply
\* or a forward it is caught at line 152 and the loop goes on.
SubSendDone(s) ==
    /\ spc[s] \in {"listing", "replying", "forwarding"}
    /\ spc[s] \in {"listing", "replying"} => sconn[s] # "stuck"
    /\ \E raised \in IF spc[s] = "listing" /\ sconn[s] = "closed"
                      THEN {TRUE, FALSE} ELSE {FALSE} :
         IF raised
         THEN /\ subscribers' = Discard(s)
              /\ spc' = [spc EXCEPT ![s] = "done"]
         ELSE /\ spc' = [spc EXCEPT ![s] = "recv"]
              /\ UNCHANGED subscribers
    /\ UNCHANGED <<devices, device_info, device_events, dpc, device_id, bc, sconn,
                   inbox, dinbox, counters, history>>

\* The handler can take a command.
CanCommand(s) == spc[s] = "recv" /\ sconn[s] # "closed" /\ ncmds < load.cmds

\* device.request_events for id: lines 128-138.
SubRequestEvents(s, id) ==
    /\ CanCommand(s)
    /\ ncmds' = ncmds + 1
    /\ inbox' = Write(inbox, s, DeviceEventsMsg(id))
    /\ spc' = [spc EXCEPT ![s] = "replying"]
    /\ UNCHANGED <<registry, dpc, device_id, bc, sconn, dinbox, load, nframes,
                   nbcast, history>>

\* The transport of device websocket c is closed once its handler has left
\* the message loop.
DeviceClosed(c) == dpc[c] \in {"cleanup", "done"}

\* SubSendCommand with a bug: a request that cannot be forwarded is answered
\* with an error message to the subscriber.
SubSendCommandReplies(s, id, cmd, payload) ==
    /\ CanCommand(s)
    /\ ncmds' = ncmds + 1
    /\ IF id \in DOMAIN devices /\ cmd # NoKey
         THEN /\ dinbox' = IF DeviceClosed(devices[id]) THEN dinbox
                           ELSE [dinbox EXCEPT ![devices[id]] =
                                    Append(@, CommandMsg(cmd, payload))]
              /\ spc' = [spc EXCEPT ![s] = "forwarding"]
              /\ UNCHANGED inbox
         ELSE /\ inbox' = Write(inbox, s, Msg("error", id, 0, {}, <<>>))
              /\ spc' = [spc EXCEPT ![s] = "replying"]
              /\ UNCHANGED dinbox
    /\ lastCmd' = Cmd(s, id, cmd, payload)
    /\ UNCHANGED <<registry, dpc, device_id, bc, sconn, load, nframes,
                   nbcast, authId, nauth, lastAuth, sentLog, unbound>>

\* device.send_command for id with the keys command and payload: lines
\* 140-148.  Without the key command, line 146 raises KeyError before
\* anything is sent (caught at line 152).
SubSendCommand(s, id, cmd, payload) ==
    /\ CanCommand(s)
    /\ ncmds' = ncmds + 1
    /\ IF id \in DOMAIN devices /\ cmd # NoKey
         THEN /\ dinbox' = IF DeviceClosed(devices[id]) THEN dinbox
                           ELSE [dinbox EXCEPT ![devices[id]] =
                                    Append(@, CommandMsg(cmd, payload))]
              /\ spc' = [spc EXCEPT ![s] = "forwarding"]
         ELSE UNCHANGED <<dinbox, spc>>
    /\ lastCmd' = Cmd(s, id, cmd, payload)
    /\ UNCHANGED <<registry, dpc, device_id, bc, sconn, inbox, load, nframes,
                   nbcast, authId, nauth, lastAuth, sentLog, unbound>>

\* A command that is no JSON (line 150) or lacks a key (line 152).
SubMalformed(s) ==
    /\ CanCommand(s)
    /\ ncmds' = ncmds + 1
    /\ UNCHANGED <<registry, dpc, device_id, bc, spc, sconn, inbox, dinbox,
                   load, nframes, nbcast, history>>

\* The connection has ended and the handler waits for a command: the loop
\* ends (or line 155), then the finally block, line 158.
SubExit(s) ==
    /\ spc[s] = "recv"
    /\ sconn[s] = "closed"
    /\ subscribers' = Discard(s)
    /\ spc' = [spc EXCEPT ![s] = "done"]
    /\ UNCHANGED <<devices, device_info, device_events, dpc, device_id, bc, sconn,
                   inbox, dinbox, counters, history>>

----------------------------------------------------------------------------
(***************************************************************************)
(* The subscribers' side of their connections.                             *)
(***************************************************************************)
SubConnected(s) == spc[s] \notin {"idle", "done"}

\* The peer stops reading: from now on no send to it completes (a peer that
\* is only slow is the delay any send may have).
SubStall(s) ==
    /\ SubConnected(s)
    /\ sconn[s] = "open"
    /\ Cardinality({t \in SubConns : sconn[t] = "stuck"}) < MaxStalls
    /\ sconn' = [sconn EXCEPT ![s] = "stuck"]
    /\ UNCHANGED <<registry, dpc, device_id, bc, spc, inbox, dinbox, counters,
                   history>>

\* The connection closes or breaks.
SubDrop(s) ==
    /\ SubConnected(s)
    /\ sconn[s] # "closed"
    /\ Cardinality({t \in SubConns : sconn[t] = "closed"}) < MaxDrops
    /\ sconn' = [sconn EXCEPT ![s] = "closed"]
    /\ UNCHANGED <<registry, dpc, device_id, bc, spc, inbox, dinbox, counters,
                   history>>

----------------------------------------------------------------------------
Next ==
    \/ \E c \in DevConns : DeviceConnect(c)
    \/ \E c \in DevConns : RecvMalformed(c)
    \/ \E c \in DevConns : RecvAuthNoId(c)
    \/ \E c \in DevConns, id \in load.ids : RecvAuthPartial(c, id)
    \/ \E c \in DevConns, id \in load.ids : RecvAuth(c, id)
    \/ \E c \in DevConns, wireId \in load.ids \cup {NoneId} : RecvEvent(c, wireId)
    \/ \E c \in DevConns : DeviceClose(c)
    \/ \E c \in DevConns : BroadcastStep(c)
    \/ \E s \in SubConns : SubConnect(s)
    \/ \E s \in SubConns : SubSendDone(s)
    \/ \E s \in SubConns, id \in load.ids : SubRequestEvents(s, id)
    \/ \E s \in SubConns, id \in load.ids,
          cmd \in Commands \cup {NoKey}, payload \in Payloads \cup {NoKey} :
             SubSendCommand(s, id, cmd, payload)
    \/ \E s \in SubConns : SubMalformed(s)
    \/ \E s \in SubConns : SubExit(s)
    \/ \E s \in SubConns : SubStall(s)
    \/ \E s \in SubConns : SubDrop(s)

Spec == Init /\ [][Next]_vars

\* The event loop resumes a coroutine whose await has completed: a send to
\* a connection that is not stuck, the read of a connection that has ended.
\* What the clients do (connect, send, stop reading, close) is under no
\* fairness.
FairSpec ==
    /\ Spec
    /\ \A c \in DevConns : WF_vars(BroadcastStep(c))
    /\ \A s \in SubConns : WF_vars(SubSendDone(s)) /\ WF_vars(SubExit(s))

----------------------------------------------------------------------------
(***************************************************************************)
(* Vocabulary of the properties.                                           *)
(***************************************************************************)

\* GetEvents(id): self.device_events.get(device_id, []), lines 131 and 192.
GetEvents(id) == DictGet(device_events, id, <<>>)

\* The handler of device connection c is in its message loop: the
\* connection is open.
DeviceOpen(c) == dpc[c] \in {"recv", "bcast"}

\* The handler of c has finished its cleanup.
DeviceGone(c) == dpc[c] = "done"

\* Connection c has sent no _auth frame that names a deviceId.
NoHandshake(c) == nauth[c] = 0

\* Connection c has sent exactly one _auth frame that names a deviceId, and
\* it was complete: the connection is Authenticated for authId[c].
OneHandshake(c) == nauth[c] = 1 /\ authId[c] # NoneId

\* Every handshake so far was the first _auth of its connection and was
\* complete.
PlainHandshakes == \A c \in DevConns : NoHandshake(c) \/ OneHandshake(c)

\* The websockets self.devices maps to.
Mapped == {devices[id] : id \in DOMAIN devices}

\* Message m is among the messages written to subscriber s.
Has(s, m) == \E i \in 1..Len(inbox[s]) : inbox[s][i] = m

\* This step ends the broadcast call of handle_device(c).
PassEnds(c) ==
    /\ dpc[c] \in {"bcast", "cleanup"}
    /\ dpc'[c] \notin {"bcast", "cleanup"}

----------------------------------------------------------------------------
(***************************************************************************)
(* C1.  Per deviceId the registry holds at most one connection mapping,    *)
(* and while the connection whose _auth for id completed most recently is  *)
(* still open, self.devices maps id to that connection; the end of an      *)
(* older connection that used the same id does not remove the mapping.     *)
(* Stated for the runs in which every handshake was plain.                 *)
(***************************************************************************)
C1_LastHandshakeWins ==
    PlainHandshakes =>
        \A id \in Ids :
            (lastAuth[id] # NoConn /\ DeviceOpen(lastAuth[id]))
                => (id \in DOMAIN devices /\ devices[id] = lastAuth[id])

(***************************************************************************)
(* C2.  When a connection that is Authenticated for id has terminated and  *)
(* its cleanup has run, and no other connection has handshaken, the        *)
(* registry has neither a connection mapping nor a DeviceInfo entry for    *)
(* id.  Stated for the ids that are not empty.                             *)
(***************************************************************************)
C2_UnregisteredAfterClose ==
    \A c \in DevConns :
        (/\ DeviceGone(c)
         /\ OneHandshake(c)
         /\ authId[c] # ""
         /\ \A b \in DevConns \ {c} : NoHandshake(b))
            => (authId[c] \notin DOMAIN devices /\ authId[c] \notin DOMAIN device_info)

(***************************************************************************)
(* C3.  A broadcast over a subscriber set with members whose connection is *)
(* already closed ends without an error, has delivered the message to      *)
(* every member whose connection is not closed, and leaves no member whose *)
(* connection was closed in the set.                                       *)
(***************************************************************************)
C3_BroadcastToleratesClosed ==
    [][\A c \in DevConns :
          (PassEnds(c) /\ bc[c].dead # {})
              => /\ Cardinality(subscribers) = bc[c].used
                 /\ \A s \in bc[c].snap : sconn[s] # "closed" => Has(s, bc[c].msg)
                 /\ subscribers' \cap bc[c].dead = {}]_vars

(***************************************************************************)
(* C4.  For any device that completes the handshake with id and then sends *)
(* k <= capacity regular events, GetEvents(id) is exactly those k events,  *)
(* each once, in the order they were sent.                                 *)
(***************************************************************************)
C4_EventsInSendOrder ==
    PlainHandshakes =>
        \A id \in Ids :
            Len(sentLog[id]) <= Capacity => GetEvents(id) = sentLog[id]

(***************************************************************************)
(* C5.  Every ring buffer holds at most capacity envelopes, and after a    *)
(* device has sent k > capacity events the buffer is exactly the last      *)
(* capacity events sent, in send order.                                    *)
(***************************************************************************)
C5_RingKeepsLastCapacity ==
    /\ \A id \in DOMAIN device_events : Len(device_events[id]) <= Capacity
    /\ PlainHandshakes =>
          \A id \in Ids :
              Len(sentLog[id]) > Capacity
                  => GetEvents(id) = LastN(sentLog[id], Capacity)

(***************************************************************************)
(* C6.  The disconnection of a device and a later handshake with the same  *)
(* id leave the ring buffer of every id as it is, and an event sent on the *)
(* new connection of an id whose earlier connection has ended is appended  *)
(* after the retained history.                                             *)
(***************************************************************************)
C6_HistorySurvivesReconnect ==
    [][/\ \A c \in DevConns :
            /\ (dpc[c] = "recv" /\ dpc'[c] \in {"cleanup", "done"})
                  => device_events' = device_events
            /\ nauth'[c] # nauth[c] => device_events' = device_events
       /\ \A id \in Ids :
            (/\ PlainHandshakes
             /\ \E b \in DevConns : authId[b] = id /\ ~DeviceOpen(b)
             /\ sentLog'[id] # sentLog[id])
                => GetEvents(id)' =
                     LastN(Append(GetEvents(id), sentLog'[id][Len(sentLog'[id])]),
                           Capacity)]_vars

(***************************************************************************)
(* C7.  When the broadcast of a handshake ends, every subscriber that was  *)
(* in the subscriber set when the broadcast began and whose connection is  *)
(* open has been sent its device.connected message.                        *)
(***************************************************************************)
C7_ConnectedReachesSubscribers ==
    [][\A c \in DevConns :
          (PassEnds(c) /\ bc[c].msg.type = "device.connected")
              => \A s \in bc[c].snap : sconn[s] = "open" => Has(s, bc[c].msg)]_vars

(***************************************************************************)
(* C8.  An _auth frame that lacks a required field is discarded as a       *)
(* whole: a connection that has sent no complete _auth has no identity     *)
(* bound and no deviceId is mapped to it.                                  *)
(***************************************************************************)
C8_IncompleteAuthDiscarded ==
    \A c \in DevConns :
        authId[c] = NoneId => (device_id[c] = NoneId /\ c \notin Mapped)

(***************************************************************************)
(* C9.  Broadcasts are serialized: every subscriber is sent the messages   *)
(* of two broadcasts in the order in which the broadcasts were invoked.    *)
(***************************************************************************)
C9_BroadcastsSerialized ==
    \A s \in SubConns :
        \A i, j \in 1..Len(inbox[s]) :
            (i < j /\ inbox[s][i].bno > 0 /\ inbox[s][j].bno > 0)
                => inbox[s][i].bno < inbox[s][j].bno

(***************************************************************************)
(* C10.  A subscriber whose send never completes does not stall           *)
(* ingestion: a device handler that is broadcasting always gets back to    *)
(* reading the frames of its device.                                       *)
(***************************************************************************)
C10_IngestionNeverStalls ==
    \A c \in DevConns : (dpc[c] = "bcast") ~> (dpc[c] = "recv")

\* The values of the keys command and payload of a request.
CmdKeys == Commands \cup {NoKey}
PayloadKeys == Payloads \cup {NoKey}

(***************************************************************************)
(* C11.  A device.send_command for a deviceId that has no connection       *)
(* mapping has no effect: no message is sent to a device or a subscriber,  *)
(* no registry map and no ring buffer changes, and the subscriber stays    *)
(* open, registered and ready for its next command.                        *)
(***************************************************************************)
C11_UnmappedCommandNoEffect ==
    [][\A s \in SubConns, id \in Ids, cmd \in CmdKeys, payload \in PayloadKeys :
          (SubSendCommand(s, id, cmd, payload) /\ id \notin DOMAIN devices)
              => /\ UNCHANGED <<registry, inbox, dinbox, sconn, spc, dpc, bc>>
                 /\ s \in subscribers'
                 /\ sconn'[s] # "closed"
                 /\ spc'[s] = "recv"]_vars

\* A well-formed device.send_command for an unmapped id has been handled
\* while a device was connected and mapped.
C11_Witness ==
    /\ lastCmd # NoCmd
    /\ lastCmd.command # NoKey
    /\ lastCmd.deviceId \notin DOMAIN devices
    /\ spc[lastCmd.conn] = "recv"
    /\ \E c \in DevConns : DeviceOpen(c) /\ c \in Mapped /\ dinbox[c] = <<>>

(***************************************************************************)
(* C13.  No ring buffer holds an envelope of type _auth, whatever _auth    *)
(* frames (complete, incomplete, repeated) and regular frames the device   *)
(* connections have sent.                                                  *)
(***************************************************************************)
C13_NoAuthInRing ==
    \A id \in DOMAIN device_events :
        \A i \in 1..Len(device_events[id]) : device_events[id][i].type # "_auth"

\* A connection that has sent several _auth frames, the last of them
\* incomplete, has events in the ring buffer of its identity.
C13_Witness ==
    \E c \in DevConns :
        /\ nauth[c] >= 2
        /\ authId[c] # NoneId
        /\ device_id[c] # authId[c]
        /\ Len(GetEvents(device_id[c])) > 0

C16_BroadcastOnSnapshot ==
    [][\A c \in DevConns :
          (PassEnds(c) /\ subscribers # bc[c].snap)
              => /\ Cardinality(subscribers) = bc[c].used
                 /\ \A s \in bc[c].snap : sconn[s] = "open" => Has(s, bc[c].msg)]_vars

\* The deviceId values a regular frame may carry on the wire, NoneId for
\* none.
WireIds == Ids \cup {NoneId}

(***************************************************************************)
(* C17.  A regular frame received on a connection that is Authenticated    *)
(* for id is stamped with id, appended to the ring buffer of id and handed *)
(* to a broadcast in the same step of the handler; the broadcast of an     *)
(* event has sent it to every open subscriber of the set when it ends; and *)
(* no event enters a ring buffer without being broadcast.                  *)
(***************************************************************************)
C17_EventStoredThenBroadcast ==
    [][/\ \A c \in DevConns, wireId \in WireIds :
            (RecvEvent(c, wireId) /\ OneHandshake(c))
                => /\ GetEvents(authId[c])' =
                        LastN(Append(GetEvents(authId[c]),
                                     [Envelope(wireId, nframes + 1)
                                         EXCEPT !.deviceId = authId[c]]),
                              Capacity)
                   /\ nbcast' = nbcast + 1
       /\ \A c \in DevConns :
            (PassEnds(c) /\ bc[c].msg.type = "log")
                => \A s \in bc[c].snap : sconn[s] = "open" => Has(s, bc[c].msg)
       /\ device_events' # device_events => nbcast' = nbcast + 1]_vars

(***************************************************************************)
(* C18.  A regular frame received on a device connection that has no       *)
(* identity bound changes nothing: no ring buffer, DeviceInfo or           *)
(* connection mapping is created or modified, nothing is broadcast or      *)
(* sent, and the connection stays open with no identity.                   *)
(***************************************************************************)
C18_UnboundFrameDropped ==
    [][\A c \in DevConns, wireId \in WireIds :
          (RecvEvent(c, wireId) /\ device_id[c] = NoneId)
              => /\ UNCHANGED <<registry, device_id, dpc, bc, inbox, dinbox, nbcast>>
                 /\ dpc'[c] = "recv"]_vars

\* A regular frame has arrived on a connection with no identity bound, while
\* another device was registered and a subscriber was listening.
C18_Witness ==
    /\ unbound
    /\ subscribers # {}
    /\ DOMAIN device_info # {}
    /\ \E c \in DevConns : dpc[c] = "recv" /\ device_id[c] = NoneId

(***************************************************************************)
(* C19.  Once a device connection has terminated and its cleanup has run,  *)
(* no deviceId maps to it, also when the connection has sent several _auth *)
(* frames with different deviceIds.  Stated for the connections whose     *)
(* last _auth frame was complete and named a deviceId that is not empty,   *)
(* in the states in which the empty deviceId is not mapped.                *)
(***************************************************************************)
C19_NoStaleMapping ==
    \A c \in DevConns :
        (/\ DeviceGone(c)
         /\ Truthy(device_id[c])
         /\ device_id[c] = authId[c]
         /\ "" \notin DOMAIN devices)
            => c \notin Mapped

(***************************************************************************)
(* C20.  Re-registration displaces the old handle: an envelope enters the  *)
(* ring buffer of id only from the connection that self.devices maps to id *)
(* at that moment.  Stated for the runs in which every handshake was       *)
(* plain.                                                                  *)
(***************************************************************************)
C20_OnlyMappedConnectionStores ==
    [][\A c \in DevConns, wireId \in WireIds :
          (/\ RecvEvent(c, wireId)
           /\ PlainHandshakes
           /\ device_events' # device_events)
              => /\ device_id[c] \in DOMAIN devices
                 /\ devices[device_id[c]] = c]_vars

\* Some open connection is Authenticated for id: the device is connected.
Connected(id) == \E c \in DevConns : DeviceOpen(c) /\ authId[c] = id

(***************************************************************************)
(* C14.  A subscriber that connects is added to the subscriber set, and    *)
(* the first message written to it is devices.list, which lists every      *)
(* device that has completed its handshake and is connected at that        *)
(* moment; no broadcast message precedes it.                               *)
(***************************************************************************)
C14_ListComesFirst ==
    [][\A s \in SubConns :
          /\ (spc[s] = "idle" /\ spc'[s] # "idle")
                => /\ s \in subscribers'
                   /\ Len(inbox'[s]) = 1
                   /\ inbox'[s][1].type = "devices.list"
                   /\ inbox'[s][1].bno = 0
                   /\ \A id \in Ids : Connected(id) => id \in inbox'[s][1].ids
          /\ spc[s] = "idle" => inbox[s] = <<>>
          /\ inbox[s] # <<>>
                => /\ Len(inbox'[s]) >= Len(inbox[s])
                   /\ inbox'[s][1] = inbox[s][1]]_vars

\* A subscriber that connected while a device was connected has been sent
\* a broadcast after its devices.list.
C14_Witness ==
    \E s \in SubConns :
        /\ Len(inbox[s]) >= 2
        /\ inbox[s][1].type = "devices.list"
        /\ inbox[s][1].ids # {}
        /\ inbox[s][2].bno > 0

(***************************************************************************)
(* C12.  A device.send_command for a deviceId whose device is connected    *)
(* is delivered: the open connection registered for the id is sent exactly *)
(* one command message with the command and payload of the request, and    *)
(* no other device connection and no subscriber is sent anything.  Stated  *)
(* for the runs in which every handshake was plain, and for the deviceIds  *)
(* that are not empty.                                                     *)
(***************************************************************************)
C12_CommandReachesDevice ==
    [][\A s \in SubConns, id \in Ids, cmd \in Commands, payload \in PayloadKeys :
          (/\ SubSendCommand(s, id, cmd, payload)
           /\ PlainHandshakes
           /\ Truthy(id)
           /\ Connected(id))
              => /\ id \in DOMAIN devices
                 /\ DeviceOpen(devices[id])
                 /\ authId[devices[id]] = id
                 /\ dinbox' = [dinbox EXCEPT ![devices[id]] =
                                  Append(@, CommandMsg(cmd, payload))]
                 /\ inbox' = inbox]_vars

----------------------------------------------------------------------------
(***************************************************************************)
(* The ring buffer properties for the deviceIds that are truthy.  These    *)
(* hold: the runs that violate C4, C5 and C6 are the runs of a device      *)
(* whose deviceId is the empty string.                                     *)
(***************************************************************************)
TruthyIds == {id \in Ids : Truthy(id)}

TruthyEventsInSendOrder ==
    PlainHandshakes =>
        \A id \in TruthyIds :
            Len(sentLog[id]) <= Capacity => GetEvents(id) = sentLog[id]

TruthyRingKeepsLastCapacity ==
    PlainHandshakes =>
        \A id \in TruthyIds :
            Len(sentLog[id]) > Capacity
                => GetEvents(id) = LastN(sentLog[id], Capacity)

TruthyHistorySurvivesReconnect ==
    [][\A id \in TruthyIds :
          (/\ PlainHandshakes
           /\ \E b \in DevConns : authId[b] = id /\ ~DeviceOpen(b)
           /\ sentLog'[id] # sentLog[id])
              => GetEvents(id)' =
                   LastN(Append(GetEvents(id), sentLog'[id][Len(sentLog'[id])]),
                         Capacity)]_vars

(***************************************************************************)
(* The forwarding of a command for the deviceIds that self.devices maps to *)
(* an open connection.  This holds: the runs that violate C12 are the runs *)
(* in which the end of an older connection has removed the mapping of a    *)
(* connected device (C1).                                                  *)
(***************************************************************************)
MappedCommandReachesDevice ==
    [][\A s \in SubConns, id \in Ids, cmd \in Commands, payload \in PayloadKeys :
          (/\ SubSendCommand(s, id, cmd, payload)
           /\ id \in DOMAIN devices
           /\ DeviceOpen(devices[id]))
              => /\ dinbox' = [dinbox EXCEPT ![devices[id]] =
                                  Append(@, CommandMsg(cmd, payload))]
                 /\ inbox' = inbox]_vars

=============================================================================
